---------------------------- MODULE Spec2Model ----------------------------
(***************************************************************************)
(* Model of src/src/generators.ts: the seeded linear congruential random   *)
(* source, the scalar generators, the bulk generators, generateAmount and  *)
(* the three format validators.                                            *)
(*                                                                         *)
(* Representation.                                                         *)
(*  - A JS string is a sequence of one-character strings; the fixed words  *)
(*    of the name corpora, the e-mail user prefix and the domain are kept  *)
(*    as single tokens of such a sequence.                                 *)
(*  - A draw r of random() is kept as its numerator v over 233280, the     *)
(*    grid on which the seeded source emits (r = v / 233280).  Math.random *)
(*    is a nondeterministic choice among sample points of the same grid.   *)
(*  - Math.floor(r * scale + offset) is computed as the exact floor of the *)
(*    rational v * scale / 233280 plus offset.  IEEE doubles agree with it *)
(*    except on some draws whose exact product is an integer, where the    *)
(*    double product falls one ulp short and the floor is one less; that   *)
(*    moves the last digit of a block and leaves the sign and the number   *)
(*    of digits of every block of a draw in [0,1) as they are here.        *)
(*  - TLC's integers are 32 bits wide; products that a double holds        *)
(*    exactly and 32 bits do not are taken in parts.                       *)
(***************************************************************************)
EXTENDS Integers, Sequences, FiniteSets

VARIABLES calls, bulk, vcase, acase

vars == <<calls, bulk, vcase, acase>>

(***************************************************************************)
(* Bounds of the model.                                                    *)
(***************************************************************************)
\* Seeds -MaxSeed .. MaxSeed are tried, and both ends of 0 .. MaxSeed moved by
\* one modulus up and down.
MaxSeed == 6
\* Number of sample points of [0,1) that Math.random can return.
NumSamples == 2
\* Bulk calls ask for -MaxNegCount .. MaxCount values.
MaxCount == 3
MaxNegCount == 2
\* Digits of the longest digit run of a validator input.
MaxDigits == 13

(***************************************************************************)
(* seededRandom                                                            *)
(***************************************************************************)
Modulus == 233280
Multiplier == 9301
Increment == 49297

\* JS `%` on integers: the remainder truncated toward zero, which carries
\* the sign of the dividend.
JsRem(a, n) == IF a >= 0 THEN a % n ELSE -((-a) % n)

\* value = (value * 9301 + 49297) % 233280.  The product is exact in a
\* double; near the ends of the state range it passes 2^31, so there it is
\* reduced in two parts of the same sign (9301 = 9000 + 301), which leaves
\* the truncated remainder unchanged.
LcgStep(value) ==
    IF value > -200000 /\ value < 200000
      THEN JsRem(value * Multiplier + Increment, Modulus)
      ELSE JsRem(JsRem(value * 9000, Modulus) + value * 301 + Increment, Modulus)

\* let value = seed: the closure's state starts at the seed itself.
seededRandom(seed) == seed

\* One doubling step of MulDiv: from t * (s \div 2) = h.q * Modulus + h.r to
\* t * s, where odd tells whether s is odd.
MulDivStep(h, t, odd) ==
    [q |-> 2 * h.q + (2 * h.r + (IF odd THEN t ELSE 0)) \div Modulus,
     r |-> (2 * h.r + (IF odd THEN t ELSE 0)) % Modulus]

\* t * s = q * Modulus + r with 0 <= r < Modulus, for 0 <= t < Modulus and
\* s >= 0, by halving s so that no intermediate value leaves 32 bits.  The
\* half is bound as the member of a one-element set, so it is computed once.
RECURSIVE MulDiv(_, _)
MulDiv(t, s) ==
    IF s = 0 THEN [q |-> 0, r |-> 0]
    ELSE CHOOSE x \in {MulDivStep(h, t, s % 2 = 1) : h \in {MulDiv(t, s \div 2)}} : TRUE

\* (v / 233280) * scale as floor + num / 233280 with 0 <= num < 233280:
\* the exact value of random() * scale for the draw v.
ScaleParts(v, scale) ==
    LET whole == (v \div Modulus) * scale
        part == MulDiv(v % Modulus, IF scale < 0 THEN -scale ELSE scale)
    IN  IF scale >= 0 THEN [floor |-> whole + part.q, num |-> part.r]
        ELSE IF part.r = 0 THEN [floor |-> whole - part.q, num |-> 0]
        ELSE [floor |-> whole - part.q - 1, num |-> Modulus - part.r]

\* Math.floor(random() * scale)
ScaleFloor(v, scale) == ScaleParts(v, scale).floor

\* The seeds passed to the seeded generators.
Seeds == (-MaxSeed .. MaxSeed)
           \cup {s + Modulus : s \in {0, MaxSeed}}
           \cup {s - Modulus : s \in {0, MaxSeed}}

\* Values Math.random() may return, as numerators over Modulus: NumSamples
\* points spread from 0 to the last point below 1.
RandomSamples == {(i * (Modulus - 1)) \div (NumSamples - 1) : i \in 0 .. (NumSamples - 1)}

(***************************************************************************)
(* Strings                                                                 *)
(***************************************************************************)
DigitChars == <<"0", "1", "2", "3", "4", "5", "6", "7", "8", "9">>
Digit == {DigitChars[i] : i \in 1..10}
UpperChars == <<"A", "B", "C", "D", "E", "F", "G", "H", "I", "J", "K", "L", "M",
                "N", "O", "P", "Q", "R", "S", "T", "U", "V", "W", "X", "Y", "Z">>
Upper == {UpperChars[i] : i \in 1..26}
\* The characters of codes 39 .. 64, which precede 'A' (65).
BelowUpperChars == <<"'", "(", ")", "*", "+", ",", "-", ".", "/">> \o DigitChars
                       \o <<":", ";", "<", "=", ">", "?", "@">>

\* String.fromCharCode(code), for the codes 39 .. 90 a draw in (-1,1) gives.
FromCharCode(code) ==
    IF code >= 65 THEN UpperChars[code - 64] ELSE BelowUpperChars[code - 38]

RECURSIVE NatToString(_)
NatToString(n) ==
    IF n < 10 THEN <<DigitChars[n + 1]>>
              ELSE NatToString(n \div 10) \o <<DigitChars[(n % 10) + 1]>>

\* Number.prototype.toString() of an integer.
NumberToString(n) == IF n < 0 THEN <<"-">> \o NatToString(-n) ELSE NatToString(n)

\* String.prototype.slice(0, end)
SliceTo(s, end) == SubSeq(s, 1, IF Len(s) < end THEN Len(s) ELSE end)

RECURSIVE PadStart(_, _, _)
PadStart(s, width, c) == IF Len(s) >= width THEN s ELSE PadStart(<<c>> \o s, width, c)

\* arr[index] inside a template literal: a missing element prints "undefined".
ArrayGet(arr, index) ==
    IF index >= 0 /\ index < Len(arr) THEN arr[index + 1] ELSE "undefined"

(***************************************************************************)
(* Scalar generators.  random is the sequence of the draws the call makes, *)
(* in order, as numerators over 233280.                                    *)
(***************************************************************************)
generatePIN(random) ==
    LET digits == NumberToString(ScaleFloor(random[1], 900000000) + 100000000)
        letterCode == ScaleFloor(random[2], 26) + 65
        letter == FromCharCode(letterCode)
    IN  <<"P">> \o digits \o <<letter>>

generateTCC(random) ==
    LET digits == SliceTo(NumberToString(ScaleFloor(random[1], 90000000) + 10000000), 6)
    IN  <<"T", "C", "C">> \o digits

generateEslip(random) ==
    LET digits == NumberToString(ScaleFloor(random[1], 900000000) + 100000000)
    IN  <<"E", "S", "L", "I", "P">> \o digits

generateObligationID(random) ==
    LET num == PadStart(NumberToString(ScaleFloor(random[1], 999) + 1), 3, "0")
    IN  <<"O", "B", "L">> \o num

generatePhoneNumber(random) ==
    LET prefixes == <<"7", "1">>
        prefix == ArrayGet(prefixes, ScaleFloor(random[1], Len(prefixes)))
        digits == NumberToString(ScaleFloor(random[2], 90000000) + 10000000)
    IN  <<"+", "2", "5", "4", prefix>> \o digits

generateEmail(domain, random) ==
    <<"taxpayer">> \o NumberToString(ScaleFloor(random[1], 1000000)) \o <<"@", domain>>

firstNames == <<"John", "Jane", "David", "Mary", "Peter", "Sarah", "James",
                "Alice", "Michael", "Grace">>
lastNames == <<"Mwangi", "Kamau", "Ochieng", "Wanjiku", "Otieno", "Njeri",
               "Kipchoge", "Mutua", "Omondi", "Wambui">>
companyPrefixes == <<"Acme", "Kenya", "East Africa", "Nairobi", "Savannah",
                     "Highland", "Coastal", "Rift Valley">>
companyTypes == <<"Corporation", "Traders", "Solutions", "Enterprises",
                  "Industries", "Coffee Co", "Logistics", "Services">>
companySuffixes == <<"Ltd", "Limited", "Co", "">>
partnerNames == <<"Mwangi", "Kamau", "Ochieng", "Kipchoge", "Mutua">>

generateTaxpayerName(type, random) ==
    IF type = "individual"
      THEN <<ArrayGet(firstNames, ScaleFloor(random[1], Len(firstNames))), " ",
             ArrayGet(lastNames, ScaleFloor(random[2], Len(lastNames)))>>
    ELSE IF type = "company"
      THEN LET prefix == ArrayGet(companyPrefixes, ScaleFloor(random[1], Len(companyPrefixes)))
               typeName == ArrayGet(companyTypes, ScaleFloor(random[2], Len(companyTypes)))
               suffixIx == ScaleFloor(random[3], Len(companySuffixes))
               \* an index outside the array gives undefined, which is falsy
               suffix == IF suffixIx >= 0 /\ suffixIx < Len(companySuffixes)
                           THEN companySuffixes[suffixIx + 1] ELSE ""
           IN  IF suffix # "" THEN <<prefix, " ", typeName, " ", suffix>>
                              ELSE <<prefix, " ", typeName>>
    ELSE <<ArrayGet(partnerNames, ScaleFloor(random[1], Len(partnerNames))), " & ",
           ArrayGet(partnerNames, ScaleFloor(random[2], Len(partnerNames))), " Partners">>

(***************************************************************************)
(* Validators.  A regular expression is the sequence of its items, each a  *)
(* character class with a repetition range; test() succeeds when the items *)
(* consume the string from its first character (^) to its last ($; without *)
(* the m flag nothing may follow, a line break included).                  *)
(***************************************************************************)
Lit(c) == [class |-> {c}, min |-> 1, max |-> 1]
Rep(class, lo, hi) == [class |-> class, min |-> lo, max |-> hi]

RECURSIVE MatchFrom(_, _, _, _)
MatchFrom(str, i, pattern, j) ==
    IF j > Len(pattern)
      THEN i = Len(str) + 1
      ELSE \E n \in pattern[j].min .. pattern[j].max :
             /\ i + n - 1 <= Len(str)
             /\ \A k \in i .. (i + n - 1) : str[k] \in pattern[j].class
             /\ MatchFrom(str, i + n, pattern, j + 1)

RegexTest(pattern, str) == MatchFrom(str, 1, pattern, 1)

\* /^P\d{9}[A-Z]$/
PINRegex == <<Lit("P"), Rep(Digit, 9, 9), Rep(Upper, 1, 1)>>
\* /^TCC\d{6,9}$/
TCCRegexLoose == <<Lit("T"), Lit("C"), Lit("C"), Rep(Digit, 6, 9)>>

\* /^TCC\d{6,8}$/
TCCRegex == <<Lit("T"), Lit("C"), Lit("C"), Rep(Digit, 6, 8)>>
\* /^ESLIP\d{9,12}$/
EslipRegex == <<Lit("E"), Lit("S"), Lit("L"), Lit("I"), Lit("P"), Rep(Digit, 9, 12)>>

validatePINFormat(pin) == RegexTest(PINRegex, pin)
validateTCCFormat(tcc) == RegexTest(TCCRegex, tcc)
validateEslipFormat(eslip) == RegexTest(EslipRegex, eslip)

(***************************************************************************)
(* Bulk generators.  A JS Set iterates in insertion order, so it is kept as *)
(* the sequence of its members in that order.  log is the history of the   *)
(* values generated by one bulk call, kept for its first MaxLog values.    *)
(***************************************************************************)
BulkGenerators == {"generatePINs", "generateTCCs", "generateEslips"}

MaxLog == MaxCount + 1

\* The generator a bulk generator calls, without a seed.
GenerateOne(fn, random) ==
    CASE fn = "generatePINs" -> generatePIN(random)
      [] fn = "generateTCCs" -> generateTCC(random)
      [] fn = "generateEslips" -> generateEslip(random)

\* GenerateOne on the sample points of Math.random, tabulated.
SampleDraws == RandomSamples \X RandomSamples
Generated ==
    {<<fn, random, GenerateOne(fn, random)>> : fn \in BulkGenerators, random \in SampleDraws}

GeneratedValue(fn, random) == (CHOOSE g \in Generated : g[1] = fn /\ g[2] = random)[3]

\* Every value one unseeded call can return on the sample points.
ValueSpace(fn) == {g[3] : g \in {h \in Generated : h[1] = fn}}

\* ToLength of Array.from({ length: count }): a negative length is 0.
ToLength(count) == IF count < 0 THEN 0 ELSE count

InSeq(v, seq) == \E k \in 1 .. Len(seq) : seq[k] = v

\* Array.prototype.push in the place of Set.prototype.add
SetAddPush(set, v) == Append(set, v)

\* delete then add: a member already present moves to the end
SetAddMoveToEnd(set, v) == Append(SelectSeq(set, LAMBDA x : x # v), v)

\* Set.prototype.add: a member already present stays where it is.

SetAdd(set, v) == IF InSeq(v, set) THEN set ELSE Append(set, v)

\* while (pins.size <= count)
LoopGuardInclusive(size, count) == size <= count

\* while (pins.size < count)

LoopGuard(size, count) == size < count

IdleBulk == [pc |-> "idle", fn |-> "-", count |-> 0, unique |-> TRUE,
             items |-> <<>>, log |-> <<>>, logged |-> TRUE, result |-> <<>>]

Logged(b, v) ==
    IF b.logged /\ Len(b.log) < MaxLog
      THEN [b EXCEPT !.log = Append(b.log, v)]
      ELSE [b EXCEPT !.logged = FALSE]

BulkCall(fn, count, unique) ==
    /\ bulk.pc = "idle"
    /\ bulk' = [IdleBulk EXCEPT !.pc = IF unique THEN "loop" ELSE "fill",
                                !.fn = fn, !.count = count, !.unique = unique]
    /\ UNCHANGED <<calls, vcase, acase>>

\* Array.from({ length: count }, () => generatePIN()): one callback call
FillDraw(random) ==
    /\ bulk.pc = "fill"
    /\ Len(bulk.items) < ToLength(bulk.count)
    /\ \E v \in {GeneratedValue(bulk.fn, random)} :
         bulk' = [Logged(bulk, v) EXCEPT !.items = Append(bulk.items, v)]
    /\ UNCHANGED <<calls, vcase, acase>>

FillReturn ==
    /\ bulk.pc = "fill"
    /\ ~(Len(bulk.items) < ToLength(bulk.count))
    /\ bulk' = [bulk EXCEPT !.pc = "done", !.result = bulk.items]
    /\ UNCHANGED <<calls, vcase, acase>>

\* one iteration of the while loop: pins.add(generatePIN())
LoopDraw(random) ==
    /\ bulk.pc = "loop"
    /\ LoopGuard(Len(bulk.items), bulk.count)
    /\ \E v \in {GeneratedValue(bulk.fn, random)} :
         bulk' = [Logged(bulk, v) EXCEPT !.items = SetAdd(bulk.items, v)]
    /\ UNCHANGED <<calls, vcase, acase>>

\* the loop exits: return Array.from(pins)
LoopReturn ==
    /\ bulk.pc = "loop"
    /\ ~LoopGuard(Len(bulk.items), bulk.count)
    /\ bulk' = [bulk EXCEPT !.pc = "done", !.result = bulk.items]
    /\ UNCHANGED <<calls, vcase, acase>>

(***************************************************************************)
(* Validator calls on a family of inputs: a prefix, a run of digits in     *)
(* which one position may hold another character, and a suffix.            *)
(***************************************************************************)
Prefixes == {<<>>, <<"P">>, <<"T", "C", "C">>, <<"E", "S", "L", "I", "P">>,
             <<"p">>, <<"T", "C">>, <<"X", "P">>, <<" ", "T", "C", "C">>,
             <<"E", "S", "L", "I", "P", "P">>}
Suffixes == {<<>>, <<"A">>, <<"Z">>, <<"a">>, <<"X">>, <<"A", "B">>, <<" ">>,
             <<"\n">>, <<"A", "\n">>}
NonDigits == {"x", "."}

DigitRun(n, start) == [k \in 1 .. n |-> DigitChars[((start + k) % 10) + 1]]

TestStrings ==
    {pre \o run \o suf :
       pre \in Prefixes, suf \in Suffixes,
       run \in UNION {{DigitRun(n, st) : st \in {0, 4}}
                        \cup {[DigitRun(n, 0) EXCEPT ![p] = c] : p \in 1 .. n, c \in NonDigits}
                      : n \in 0 .. MaxDigits}}

IdleV == [pc |-> "idle", input |-> <<>>, pin |-> FALSE, tcc |-> FALSE, eslip |-> FALSE]

Validate ==
    /\ vcase.pc = "input"
    /\ vcase' = [vcase EXCEPT !.pc = "checked",
                              !.pin = validatePINFormat(vcase.input),
                              !.tcc = validateTCCFormat(vcase.input),
                              !.eslip = validateEslipFormat(vcase.input)]
    /\ UNCHANGED <<calls, bulk, acase>>

(***************************************************************************)
(* generateAmount.  min, max and the result are counted in thousandths;    *)
(* the amount before rounding is int + num / den thousandths, with         *)
(* 0 <= num < den.  decimals is 0 .. 3.  toFixed rounds the decimal value  *)
(* of the double, so an exact decimal tie may fall either way in JS; here  *)
(* a tie goes away from zero.                                              *)
(***************************************************************************)
\* random() * max + min
AmountNoSpan(min, max, r) ==
    LET p == ScaleParts(r, max)
    IN  [int |-> min + p.floor, num |-> p.num, den |-> Modulus]

\* random() * (max - min) + min
AmountOf(min, max, r) ==
    LET p == ScaleParts(r, max - min)
    IN  [int |-> min + p.floor, num |-> p.num, den |-> Modulus]

RECURSIVE Pow10(_)
Pow10(n) == IF n = 0 THEN 1 ELSE 10 * Pow10(n - 1)

\* The multiple of step nearest to int + num / den >= 0, the larger of two.
RoundNonNeg(int, num, den, step) ==
    IF step = 1 THEN int + (IF 2 * num >= den THEN 1 ELSE 0)
                ELSE ((int + step \div 2) \div step) * step

\* Number(amount.toFixed(decimals)), in thousandths
ToFixed(a, decimals) ==
    LET step == Pow10(3 - decimals)
    IN  IF a.int >= 0 THEN RoundNonNeg(a.int, a.num, a.den, step)
        ELSE IF a.num = 0 THEN -RoundNonNeg(-a.int, 0, a.den, step)
        ELSE -RoundNonNeg(-a.int - 1, a.den - a.num, a.den, step)

generateAmount(min, max, decimals, r) == ToFixed(AmountOf(min, max, r), decimals)

\* Bounds tried for min and max, in thousandths (1000 is 1.000).
AmountBounds == {-1504, 0, 4, 1000, 1004, 1000000, 2000000}
DecimalsTried == 0 .. 3

IdleA == [pc |-> "idle", min |-> 0, max |-> 0, decimals |-> 0, seeded |-> FALSE,
          r |-> 0, result |-> 0]

\* generateAmount(min, max, decimals): const random = Math.random
AmountMathRandom ==
    /\ acase.pc = "input"
    /\ \E r \in RandomSamples :
         acase' = [acase EXCEPT !.pc = "done", !.seeded = FALSE, !.r = r,
                     !.result = generateAmount(acase.min, acase.max, acase.decimals, r)]
    /\ UNCHANGED <<calls, bulk, vcase>>

\* generateAmount(min, max, decimals, seed): the first draw of seededRandom(seed)
AmountSeeded ==
    /\ acase.pc = "input"
    /\ \E seed \in Seeds :
         LET r == LcgStep(seededRandom(seed))
         IN  acase' = [acase EXCEPT !.pc = "done", !.seeded = TRUE, !.r = r,
                         !.result = generateAmount(acase.min, acase.max, acase.decimals, r)]
    /\ UNCHANGED <<calls, bulk, vcase>>

(***************************************************************************)
(* Calls of the scalar generators.  Each call owns the closure seededRandom *)
(* returned to it (its value) and makes its draws one at a time; calls in  *)
(* different slots take their steps in any order.                          *)
(***************************************************************************)
Slots == {1, 2}

Generators == {"generatePIN", "generateTCC", "generateEslip", "generateObligationID",
               "generatePhoneNumber", "generateEmail", "generateTaxpayerName"}

\* The other argument of a generator, where it has one.
ArgsOf(fn) ==
    IF fn = "generateTaxpayerName" THEN {"individual", "company", "partnership"}
    ELSE IF fn = "generateEmail" THEN {"example.com"}
    ELSE {"-"}

\* The number of times the body of a generator calls random().
NumDraws(fn, arg) ==
    IF fn \in {"generatePIN", "generatePhoneNumber"} THEN 2
    ELSE IF fn = "generateTaxpayerName" THEN (IF arg = "company" THEN 3 ELSE 2)
    ELSE 1

\* The value a generator returns from the draws it made.
Generate(fn, arg, random) ==
    CASE fn = "generatePIN" -> generatePIN(random)
      [] fn = "generateTCC" -> generateTCC(random)
      [] fn = "generateEslip" -> generateEslip(random)
      [] fn = "generateObligationID" -> generateObligationID(random)
      [] fn = "generatePhoneNumber" -> generatePhoneNumber(random)
      [] fn = "generateEmail" -> generateEmail(arg, random)
      [] fn = "generateTaxpayerName" -> generateTaxpayerName(arg, random)

IdleCall == [pc |-> "idle", fn |-> "-", arg |-> "-", seeded |-> FALSE, seed |-> 0,
             value |-> 0, draws |-> <<>>, result |-> <<>>]

\* One value shared by every closure (a module-level `let value`)
ClosureShared(cs, i) == cs[1].value

\* The closure state a call's random() reads: the call's own.

ClosureValue(cs, i) == cs[i].value

\* const random = seed !== undefined ? seededRandom(seed) : Math.random
Call(i, fn, arg, seeded, seed) ==
    /\ calls[i].pc = "idle"
    /\ calls' = [calls EXCEPT ![i] =
                   [pc |-> "running", fn |-> fn, arg |-> arg, seeded |-> seeded,
                    seed |-> seed, value |-> IF seeded THEN seededRandom(seed) ELSE 0,
                    draws |-> <<>>, result |-> <<>>]]
    /\ UNCHANGED <<bulk, vcase, acase>>

\* One random() of call i; the draw that completes the body returns the value.
Advance(c, value, r) ==
    LET draws == Append(c.draws, r)
        done == Len(draws) = NumDraws(c.fn, c.arg)
    IN  [c EXCEPT !.value = value, !.draws = draws,
                  !.pc = IF done THEN "done" ELSE "running",
                  !.result = IF done THEN Generate(c.fn, c.arg, draws) ELSE <<>>]

DrawSeeded(i) ==
    /\ calls[i].pc = "running"
    /\ calls[i].seeded
    /\ LET value == LcgStep(ClosureValue(calls, i))
       IN  calls' = [calls EXCEPT ![i] = Advance(calls[i], value, value)]
    /\ UNCHANGED <<bulk, vcase, acase>>

DrawMathRandom(i) ==
    /\ calls[i].pc = "running"
    /\ ~calls[i].seeded
    /\ \E r \in RandomSamples :
         calls' = [calls EXCEPT ![i] = Advance(calls[i], calls[i].value, r)]
    /\ UNCHANGED <<bulk, vcase, acase>>

Init ==
    /\ calls = [i \in Slots |-> IdleCall]
    /\ bulk = IdleBulk
    /\ vcase = IdleV
    /\ acase = IdleA

Next ==
    \/ \E i \in Slots, fn \in Generators :
         \E arg \in ArgsOf(fn), seed \in Seeds : Call(i, fn, arg, TRUE, seed)
    \/ \E i \in Slots, fn \in Generators :
         \E arg \in ArgsOf(fn) : Call(i, fn, arg, FALSE, 0)
    \/ \E i \in Slots : DrawSeeded(i)
    \/ \E i \in Slots : DrawMathRandom(i)

Spec == Init /\ [][Next]_vars

InitBulk ==
    /\ calls = [i \in Slots |-> IdleCall]
    /\ bulk = IdleBulk
    /\ vcase = IdleV
    /\ acase = IdleA

NextBulk ==
    \/ \E fn \in BulkGenerators, count \in (-MaxNegCount) .. MaxCount, unique \in BOOLEAN :
         BulkCall(fn, count, unique)
    \/ \E random \in SampleDraws : FillDraw(random)
    \/ FillReturn
    \/ \E random \in SampleDraws : LoopDraw(random)
    \/ LoopReturn

SpecBulk == InitBulk /\ [][NextBulk]_vars

\* A draw of the unique loop that puts a value into the set.
LoopNewValue ==
    \E random \in SampleDraws :
        LoopDraw(random) /\ Len(bulk'.items) > Len(bulk.items)

\* The call keeps running, and Math.random is fair: while some value is not
\* in the set yet, a draw of such a value is not withheld for ever.
FairBulk ==
    /\ SpecBulk
    /\ WF_vars(LoopNewValue)
    /\ WF_vars(LoopReturn)

InitVal ==
    /\ calls = [i \in Slots |-> IdleCall]
    /\ bulk = IdleBulk
    /\ vcase \in {[IdleV EXCEPT !.pc = "input", !.input = str] : str \in TestStrings}
    /\ acase = IdleA

NextVal == Validate

SpecVal == InitVal /\ [][NextVal]_vars

InitAmount ==
    /\ calls = [i \in Slots |-> IdleCall]
    /\ bulk = IdleBulk
    /\ vcase = IdleV
    /\ acase \in {[IdleA EXCEPT !.pc = "input", !.min = min, !.max = max, !.decimals = d] :
                    min \in AmountBounds, max \in AmountBounds, d \in DecimalsTried}

NextAmount ==
    \/ AmountMathRandom
    \/ AmountSeeded

SpecAmount == InitAmount /\ [][NextAmount]_vars

(***************************************************************************)
(* Properties                                                              *)
(***************************************************************************)
DoneCalls(fn) == {i \in Slots : calls[i].pc = "done" /\ calls[i].fn = fn}

AllDigits(str, from, to) == \A k \in from .. to : str[k] \in Digit

HasPrefix(str, pre) == Len(str) >= Len(pre) /\ SubSeq(str, 1, Len(pre)) = pre

\* C1: for every seed, 0 and negative seeds included, generatePIN(seed) is
\* 'P', nine digits and one letter A-Z, and validatePINFormat accepts it.
C1_SeededPINIsValid ==
    \A i \in DoneCalls("generatePIN") :
        calls[i].seeded =>
          /\ validatePINFormat(calls[i].result)
          /\ Len(calls[i].result) = 11
          /\ calls[i].result[1] = "P"
          /\ AllDigits(calls[i].result, 2, 10)
          /\ calls[i].result[11] \in Upper

\* C2: for every seed and for every unseeded draw, generateTCC returns 'TCC'
\* and exactly six digits, generateEslip returns 'ESLIP' and exactly nine
\* digits, and the validators accept both.
C2_TCCAndEslipAreValid ==
    /\ \A i \in DoneCalls("generateTCC") :
          /\ HasPrefix(calls[i].result, <<"T", "C", "C">>)
          /\ Len(calls[i].result) = 9
          /\ AllDigits(calls[i].result, 4, 9)
          /\ validateTCCFormat(calls[i].result)
    /\ \A i \in DoneCalls("generateEslip") :
          /\ HasPrefix(calls[i].result, <<"E", "S", "L", "I", "P">>)
          /\ Len(calls[i].result) = 14
          /\ AllDigits(calls[i].result, 6, 14)
          /\ validateEslipFormat(calls[i].result)

\* C3: two calls of a seeded generator with the same seed and the same other
\* arguments make the same draws and return the same value, whatever the
\* other call slot did before, between or in the middle of their steps.
C3_SameSeedSameValue ==
    \A i \in Slots, j \in Slots :
        ( /\ calls[i].pc = "done" /\ calls[j].pc = "done"
          /\ calls[i].seeded /\ calls[j].seeded
          /\ calls[i].fn = calls[j].fn /\ calls[i].arg = calls[j].arg
          /\ calls[i].seed = calls[j].seed )
        => /\ calls[i].draws = calls[j].draws
           /\ calls[i].result = calls[j].result

\* Two completed calls of the same two-draw generator with the same seed,
\* in different slots.
C3_Witness ==
    /\ calls[1].pc = "done" /\ calls[2].pc = "done"
    /\ calls[1].fn = "generatePIN" /\ calls[2].fn = "generatePIN"
    /\ calls[1].seeded /\ calls[2].seeded
    /\ calls[1].seed = calls[2].seed

NoDuplicate(seq) == \A a \in 1 .. Len(seq), b \in 1 .. Len(seq) : a # b => seq[a] # seq[b]

\* C4: for count >= 0 a returned bulk result has exactly count elements,
\* pairwise distinct when unique is true; while the unique loop runs, the
\* uniqueness set holds at most count members and no duplicate.
C4_BulkLengthAndUniqueness ==
    bulk.count >= 0 =>
      /\ bulk.pc = "done" =>
           /\ Len(bulk.result) = bulk.count
           /\ bulk.unique => NoDuplicate(bulk.result)
      /\ bulk.pc = "loop" =>
           /\ Len(bulk.items) <= bulk.count
           /\ NoDuplicate(bulk.items)

\* A unique call that returned after drawing some value twice.
C4_Witness ==
    /\ bulk.pc = "done" /\ bulk.unique /\ bulk.logged
    /\ bulk.count >= 2
    /\ Len(bulk.log) > bulk.count

PINGrammar(str) ==
    /\ Len(str) = 11
    /\ str[1] = "P"
    /\ AllDigits(str, 2, 10)
    /\ str[11] \in Upper

TCCGrammar(str) ==
    /\ Len(str) - 3 \in 6 .. 8
    /\ HasPrefix(str, <<"T", "C", "C">>)
    /\ AllDigits(str, 4, Len(str))

EslipGrammar(str) ==
    /\ Len(str) - 5 \in 9 .. 12
    /\ HasPrefix(str, <<"E", "S", "L", "I", "P">>)
    /\ AllDigits(str, 6, Len(str))

\* C5: each validator returns true exactly for the strings of its grammar:
\* 'P' + 9 digits + A-Z; 'TCC' + 6 to 8 digits; 'ESLIP' + 9 to 12 digits;
\* nothing before or after.
C5_ValidatorsMatchGrammar ==
    vcase.pc = "checked" =>
      /\ vcase.pin <=> PINGrammar(vcase.input)
      /\ vcase.tcc <=> TCCGrammar(vcase.input)
      /\ vcase.eslip <=> EslipGrammar(vcase.input)

\* 'TCC123456789' (nine digits) has been rejected.
C5_Witness ==
    /\ vcase.pc = "checked"
    /\ vcase.input = <<"T", "C", "C">> \o DigitRun(9, 0)
    /\ ~vcase.tcc

Aligned(x, decimals) == x % Pow10(3 - decimals) = 0

AmountFromUnitDraw ==
    /\ acase.pc = "done"
    /\ acase.r >= 0 /\ acase.r < Modulus
    /\ acase.min <= acase.max

\* C6 as stated: for min <= max and every draw in [0,1), the result n has
\* min <= n <= max and at most `decimals` fractional digits.
C6_AmountWithinBounds ==
    AmountFromUnitDraw =>
      /\ acase.min <= acase.result
      /\ acase.result <= acase.max
      /\ Aligned(acase.result, acase.decimals)

\* C6 amended: the same, for min and max that are themselves multiples of
\* 10^-decimals (as 1000 and 2000 are for every decimals >= 0).
C6_AmountWithinAlignedBounds ==
    ( /\ AmountFromUnitDraw
      /\ Aligned(acase.min, acase.decimals)
      /\ Aligned(acase.max, acase.decimals) )
    => /\ acase.min <= acase.result
       /\ acase.result <= acase.max
       /\ Aligned(acase.result, acase.decimals)

\* generateAmount(1000, 2000, 2) has returned 2000: the last draw below 1
\* rounds up to the upper bound.
C6_Witness ==
    /\ acase.pc = "done" /\ ~acase.seeded
    /\ acase.min = 1000000 /\ acase.max = 2000000 /\ acase.decimals = 2
    /\ acase.r = Modulus - 1
    /\ acase.result = acase.max

\* C7: for count <= 0 a bulk call ends with an empty result, with unique
\* true or false, and generates no value on the way.
C7_NonPositiveCountIsEmpty ==
    (bulk.pc # "idle" /\ bulk.count <= 0) =>
      /\ bulk.items = <<>>
      /\ bulk.log = <<>> /\ bulk.logged
      /\ bulk.pc = "done" => bulk.result = <<>>

\* A unique call with a negative count has returned.
C7_Witness ==
    /\ bulk.pc = "done" /\ bulk.unique /\ bulk.count < 0
    /\ bulk.result = <<>>

\* C8: every value the seeded random function emits lies in [0,1), i.e. its
\* state after each step is in 0 .. 233279, for every seed.
C8_SeededDrawsInUnitInterval ==
    \A i \in Slots :
        calls[i].seeded =>
          \A k \in 1 .. Len(calls[i].draws) :
              calls[i].draws[k] >= 0 /\ calls[i].draws[k] < Modulus

RECURSIVE FirstFrom(_, _)
FirstFrom(log, k) ==
    IF k > Len(log) THEN <<>>
    ELSE (IF \E j \in 1 .. (k - 1) : log[j] = log[k] THEN <<>> ELSE <<log[k]>>)
           \o FirstFrom(log, k + 1)

\* The values of a log in the order of their first occurrence.
FirstOccurrences(log) == FirstFrom(log, 1)

\* C9: under fair draws a unique bulk call whose count does not exceed the
\* number of values the generator can produce eventually returns, and the
\* sequence it returns lists the values in the order of their first
\* insertion into the set.
C9_UniqueLoopReturnsInInsertionOrder ==
    /\ (bulk.pc = "loop" /\ bulk.count <= Cardinality(ValueSpace(bulk.fn)))
          ~> (bulk.pc = "done")
    /\ [](bulk.pc = "done" /\ bulk.unique /\ bulk.logged
            => bulk.result = FirstOccurrences(bulk.log))

\* A unique call returned MaxCount values after a repeated draw that came
\* before the last new value.
C9_Witness ==
    /\ bulk.pc = "done" /\ bulk.unique /\ bulk.logged
    /\ bulk.count = MaxCount
    /\ Len(bulk.log) > bulk.count
    /\ bulk.log[2] = bulk.log[1]

\* C10: generatePIN(s) and generateEslip(s) carry the same digit block, and
\* the PIN is fixed by the residue modulo 233280 of the first state of the
\* sequence, so that seeded generation yields at most 233280 PINs.
C10_SeededOutputsShareFirstDraw ==
    /\ \A i \in DoneCalls("generatePIN"), j \in DoneCalls("generateEslip") :
          (calls[i].seeded /\ calls[j].seeded /\ calls[i].seed = calls[j].seed)
          => SubSeq(calls[i].result, 2, Len(calls[i].result) - 1)
               = SubSeq(calls[j].result, 6, Len(calls[j].result))
    /\ \A i \in DoneCalls("generatePIN"), j \in DoneCalls("generatePIN") :
          ( /\ calls[i].seeded /\ calls[j].seeded
            /\ calls[i].draws[1] % Modulus = calls[j].draws[1] % Modulus )
          => calls[i].result = calls[j].result

=============================================================================
